---- MODULE Spec2Model ----
(***************************************************************************)
(* A model of ThreadPool (src/ThreadPool.h): a fixed set of worker threads *)
(* running worker_loop over a mutex-protected FIFO queue, the submit /     *)
(* get_queue_size / shutdown operations called by client threads, and the  *)
(* std::future handles the clients read (src/test_auto.cpp).               *)
(*                                                                         *)
(* Every step that the code performs while holding queue_mutex is one      *)
(* action that ends by releasing the mutex; acquiring the mutex is a step  *)
(* of its own, so lock contention and every interleaving of the unlocked   *)
(* parts (task creation, notify_one, notify_all, the join loop, the task   *)
(* body) are explored.                                                     *)
(***************************************************************************)
EXTENDS Naturals, Sequences, FiniteSets

\* Largest num_threads given to the constructor.
MaxWorkers == 2
\* Number of client threads that call the pool's public functions.
NumClients == 2
\* Largest number of packaged_tasks created by submit() calls.
MaxTasks == 2
\* Largest number of shutdown() calls.
MaxShutdowns == 2

Clients == 1..NumClients
TaskIds == 1..MaxTasks

\* The callables passed to submit: one that returns a value, one that throws.
Callables == {"A", "boom"}
Failing == {"boom"}

VARIABLES
    nworkers,   \* workers.size(): the constructor's num_threads
    stop,       \* bool stop
    tasks,      \* std::queue tasks: a sequence of packaged_task ids
    mutex,      \* the holder of queue_mutex, or Free
    wpc,        \* each worker's position in worker_loop
    cur,        \* each worker's local variable `task` (0: empty)
    joined,     \* worker i's std::thread is no longer joinable()
    callable,   \* the callable bound into packaged_task p ("" before creation)
    handle,     \* the shared state the future made for task p refers to
    result,     \* the shared state of each handle: none, a value or a failure
    owner,      \* the client holding the future submit() returned for task p
    consumed,   \* that future's get() has returned (valid() is false)
    nCreated,   \* packaged_tasks created so far
    nShutdown,  \* shutdown() calls started so far
    pc,         \* each client's position in the operation it is calling
    ctask,      \* the client's local `task` (submit) or the future it reads
    idx,        \* the client's position in shutdown's loop over workers
    ret,        \* what the client's last completed call returned or threw
    enqOrder,   \* history: the task ids in the order they were emplaced
    deqOrder,   \* history: the task ids in the order workers removed them
    bodyDone,   \* history: how often the callable of task p ran to its end
    nWrites,    \* history: how often handle h's shared state was written
    nReturned,  \* history: shutdown() calls that have returned normally
    dtor,       \* the client executing ~ThreadPool() (0: not begun)
    destroyed   \* ~ThreadPool() has completed: the pool object is gone

vars == <<nworkers, stop, tasks, mutex, wpc, cur, joined, callable, handle,
          result, owner, consumed, nCreated, nShutdown, pc, ctask, idx, ret,
          enqOrder, deqOrder, bodyDone, nWrites, nReturned, dtor, destroyed>>

Workers == 1..nworkers

Free == <<"free", 0>>
W(w) == <<"worker", w>>
C(c) == <<"client", c>>

NoResult == [kind |-> "none", val |-> ""]
NoRet == [kind |-> "none", n |-> 0, val |-> ""]
Ret(k, n, v) == [kind |-> k, n |-> n, val |-> v]

\* The elements of a sequence.
Range(s) == {s[i] : i \in 1..Len(s)}

\* ---------------------------------------------------------------- helpers

\* should_wake_up(): stop || !tasks.empty()
should_wake_up == stop \/ tasks # <<>>

\* A faulty front(): the element at the back.
FrontLast(q) == q[Len(q)]
\* tasks.front()
Front(q) == Head(q)

\* A faulty pop(): the front element stays in the queue.
PopNone(q) == q
\* tasks.pop()
Pop(q) == Tail(q)

\* A faulty emplace(): insertion at the front.
EmplaceFront(q, p) == <<p>> \o q
\* tasks.emplace(...): append at the back
Emplace(q, p) == Append(q, p)

\* What running a callable produces: its return value, or the exception it throws.
Outcome(f) ==
    IF f \in Failing THEN [kind |-> "failure", val |-> f]
    ELSE [kind |-> "value", val |-> f]

\* A faulty wrapper: an exception is caught and a default value stored.
invoke_swallow(f) ==
    [stored |-> [kind |-> "value", val |-> IF f \in Failing THEN "" ELSE f],
     propagates |-> FALSE]
\* A faulty wrapper: the callable is run bare, so its exception leaves task().
invoke_raw(f) ==
    [stored |-> IF f \in Failing THEN NoResult ELSE Outcome(f),
     propagates |-> f \in Failing]
\* (*task_ptr)(): std::packaged_task::operator() runs the callable and stores
\* its value or its exception in the shared state; nothing propagates.
execute_packaged_task(f) == [stored |-> Outcome(f), propagates |-> FALSE]

\* A faulty get_future(): every future refers to the first task's state.
get_future_shared(p) == 1
\* task->get_future(): the future shares the state of that packaged_task.
get_future(p) == p

\* A faulty exit test: the worker returns on stop with tasks still queued.
end_of_work_nodrain == stop
\* if (stop && tasks.empty()) return;
end_of_work == stop /\ tasks = <<>>

\* A faulty loop: join() is called without the joinable() test.
joinable_always(w) == TRUE
\* worker.joinable(): the thread has not been joined
joinable(w) == ~joined[w]

\* A faulty submit(): stop is not tested.
submit_closed_unchecked == FALSE
\* if (stop) throw std::runtime_error(...)
submit_closed == stop

\* A faulty submit(): no notify_one().
NotifyNone(next) == next = wpc
\* condition.notify_one(): at most one waiting worker leaves wait().
NotifyOne(next) ==
    IF \E w \in Workers : wpc[w] = "wait"
    THEN \E w \in Workers :
            /\ wpc[w] = "wait"
            /\ next = [wpc EXCEPT ![w] = "relock"]
    ELSE next = wpc

\* A faulty shutdown(): notify_one() in place of notify_all().
NotifyAll_one ==
    IF \E w \in DOMAIN wpc : wpc[w] = "wait"
    THEN [wpc EXCEPT ![CHOOSE w \in DOMAIN wpc : wpc[w] = "wait"] = "relock"]
    ELSE wpc
\* condition.notify_all(): every waiting worker leaves wait().
NotifyAll == [w \in DOMAIN wpc |-> IF wpc[w] = "wait" THEN "relock" ELSE wpc[w]]

\* ------------------------------------------------------------------- Init

\* ThreadPool(num_threads): stop(false), num_threads workers started.
Init ==
    /\ nworkers \in 0..MaxWorkers
    /\ stop = FALSE
    /\ tasks = <<>>
    /\ mutex = Free
    /\ wpc = [w \in 1..nworkers |-> "lock"]
    /\ cur = [w \in 1..nworkers |-> 0]
    /\ joined = [w \in 1..nworkers |-> FALSE]
    /\ callable = [p \in TaskIds |-> ""]
    /\ handle = [p \in TaskIds |-> 0]
    /\ result = [p \in TaskIds |-> NoResult]
    /\ owner = [p \in TaskIds |-> 0]
    /\ consumed = [p \in TaskIds |-> FALSE]
    /\ nCreated = 0
    /\ nShutdown = 0
    /\ pc = [c \in Clients |-> "idle"]
    /\ ctask = [c \in Clients |-> 0]
    /\ idx = [c \in Clients |-> 0]
    /\ ret = [c \in Clients |-> NoRet]
    /\ enqOrder = <<>>
    /\ deqOrder = <<>>
    /\ bodyDone = [p \in TaskIds |-> 0]
    /\ nWrites = [p \in TaskIds |-> 0]
    /\ nReturned = 0
    /\ dtor = 0
    /\ destroyed = FALSE

\* ------------------------------------------------------------ worker_loop

\* std::unique_lock<std::mutex> lock(queue_mutex) at the top of the loop.
WLock(w) ==
    /\ w \in Workers
    /\ wpc[w] = "lock"
    /\ mutex = Free
    /\ mutex' = W(w)
    /\ wpc' = [wpc EXCEPT ![w] = "check"]
    /\ UNCHANGED <<nworkers, stop, tasks, cur, joined, callable, handle, result,
                   owner, consumed, nCreated, nShutdown, pc, ctask, idx, ret,
                   enqOrder, deqOrder, bodyDone, nWrites,
                   nReturned, dtor, destroyed>>

\* A faulty worker_loop: do { wait } while (!should_wake_up()), so that the
\* worker sleeps once before it first tests the predicate.
WWait_unchecked(w) ==
    /\ w \in Workers
    /\ wpc[w] = "check"
    /\ mutex = W(w)
    /\ mutex' = Free
    /\ wpc' = [wpc EXCEPT ![w] = "wait"]
    /\ UNCHANGED <<nworkers, stop, tasks, cur, joined, callable, handle, result,
                   owner, consumed, nCreated, nShutdown, pc, ctask, idx, ret,
                   enqOrder, deqOrder, bodyDone, nWrites,
                   nReturned, dtor, destroyed>>

\* while (!should_wake_up()) condition.wait(lock): the mutex is released and
\* the worker sleeps, in one atomic step.
WWait(w) ==
    /\ w \in Workers
    /\ wpc[w] = "check"
    /\ mutex = W(w)
    /\ ~should_wake_up
    /\ mutex' = Free
    /\ wpc' = [wpc EXCEPT ![w] = "wait"]
    /\ UNCHANGED <<nworkers, stop, tasks, cur, joined, callable, handle, result,
                   owner, consumed, nCreated, nShutdown, pc, ctask, idx, ret,
                   enqOrder, deqOrder, bodyDone, nWrites,
                   nReturned, dtor, destroyed>>

\* A wait() may return without any notify (a spurious wake-up).
WSpurious(w) ==
    /\ w \in Workers
    /\ wpc[w] = "wait"
    /\ wpc' = [wpc EXCEPT ![w] = "relock"]
    /\ UNCHANGED <<nworkers, stop, tasks, mutex, cur, joined, callable, handle,
                   result, owner, consumed, nCreated, nShutdown, pc, ctask, idx,
                   ret, enqOrder, deqOrder, bodyDone, nWrites,
                   nReturned, dtor, destroyed>>

\* A faulty worker_loop: "if" in place of "while", so that a woken worker goes
\* on to the exit test and to front()/pop() without testing the predicate again.
WRelock_norecheck(w) ==
    /\ w \in Workers
    /\ wpc[w] = "relock"
    /\ mutex = Free
    /\ IF stop /\ tasks = <<>>
       THEN /\ wpc' = [wpc EXCEPT ![w] = "done"]
            /\ UNCHANGED <<tasks, cur, deqOrder>>
       ELSE IF tasks = <<>>
       THEN /\ wpc' = [wpc EXCEPT ![w] = "undefined"]
            /\ UNCHANGED <<tasks, cur, deqOrder>>
       ELSE /\ cur' = [cur EXCEPT ![w] = Front(tasks)]
            /\ tasks' = Pop(tasks)
            /\ deqOrder' = Append(deqOrder, Front(tasks))
            /\ wpc' = [wpc EXCEPT ![w] = "run"]
    /\ UNCHANGED <<nworkers, stop, mutex, joined, callable, handle, result,
                   owner, consumed, nCreated, nShutdown, pc, ctask, idx, ret,
                   enqOrder, bodyDone, nWrites, nReturned, dtor, destroyed>>

\* wait() reacquires the mutex before it returns; the loop tests the predicate again.
WRelock(w) ==
    /\ w \in Workers
    /\ wpc[w] = "relock"
    /\ mutex = Free
    /\ mutex' = W(w)
    /\ wpc' = [wpc EXCEPT ![w] = "check"]
    /\ UNCHANGED <<nworkers, stop, tasks, cur, joined, callable, handle, result,
                   owner, consumed, nCreated, nShutdown, pc, ctask, idx, ret,
                   enqOrder, deqOrder, bodyDone, nWrites,
                   nReturned, dtor, destroyed>>

\* A faulty exit test: "||" in place of "&&", so that a worker returns
\* on an empty queue before stop is set, and on stop with tasks still queued.
WExit_either(w) ==
    /\ w \in Workers
    /\ wpc[w] = "check"
    /\ mutex = W(w)
    /\ stop \/ tasks = <<>>
    /\ mutex' = Free
    /\ wpc' = [wpc EXCEPT ![w] = "done"]
    /\ UNCHANGED <<nworkers, stop, tasks, cur, joined, callable, handle, result,
                   owner, consumed, nCreated, nShutdown, pc, ctask, idx, ret,
                   enqOrder, deqOrder, bodyDone, nWrites,
                   nReturned, dtor, destroyed>>

\* if (stop && tasks.empty()) return;  (the unique_lock releases the mutex)
WExit(w) ==
    /\ w \in Workers
    /\ wpc[w] = "check"
    /\ mutex = W(w)
    /\ should_wake_up
    /\ end_of_work
    /\ mutex' = Free
    /\ wpc' = [wpc EXCEPT ![w] = "done"]
    /\ UNCHANGED <<nworkers, stop, tasks, cur, joined, callable, handle, result,
                   owner, consumed, nCreated, nShutdown, pc, ctask, idx, ret,
                   enqOrder, deqOrder, bodyDone, nWrites,
                   nReturned, dtor, destroyed>>

\* A faulty worker_loop: the lock's scope extends over task().
WDequeue_holding(w) ==
    /\ w \in Workers
    /\ wpc[w] = "check"
    /\ mutex = W(w)
    /\ should_wake_up
    /\ ~end_of_work
    /\ tasks # <<>>
    /\ cur' = [cur EXCEPT ![w] = Front(tasks)]
    /\ tasks' = Pop(tasks)
    /\ deqOrder' = Append(deqOrder, Front(tasks))
    /\ wpc' = [wpc EXCEPT ![w] = "run"]
    /\ UNCHANGED <<nworkers, stop, mutex, joined, callable, handle, result,
                   owner, consumed, nCreated, nShutdown, pc, ctask, idx, ret,
                   enqOrder, bodyDone, nWrites, nReturned, dtor, destroyed>>

\* task = std::move(tasks.front()); tasks.pop(); and the block's end releases
\* the mutex. front() of an empty queue has no defined result: the worker is
\* then left at "undefined".
WDequeue(w) ==
    /\ w \in Workers
    /\ wpc[w] = "check"
    /\ mutex = W(w)
    /\ should_wake_up
    /\ ~end_of_work
    /\ mutex' = Free
    /\ IF tasks = <<>>
       THEN /\ wpc' = [wpc EXCEPT ![w] = "undefined"]
            /\ UNCHANGED <<tasks, cur, deqOrder>>
       ELSE /\ cur' = [cur EXCEPT ![w] = Front(tasks)]
            /\ tasks' = Pop(tasks)
            /\ deqOrder' = Append(deqOrder, Front(tasks))
            /\ wpc' = [wpc EXCEPT ![w] = "run"]
    /\ UNCHANGED <<nworkers, stop, joined, callable, handle, result, owner,
                   consumed, nCreated, nShutdown, pc, ctask, idx, ret, enqOrder,
                   bodyDone, nWrites,
                   nReturned, dtor, destroyed>>

\* task(): the bound execute_packaged_task runs the callable of the
\* packaged_task outside the lock and writes that task's shared state. An
\* exception that leaves task() leaves worker_loop too (std::terminate).
WRun(w) ==
    /\ w \in Workers
    /\ wpc[w] = "run"
    /\ LET p == cur[w]
           r == execute_packaged_task(callable[p])
       IN  /\ bodyDone' = [bodyDone EXCEPT ![p] = @ + 1]
           /\ IF r.stored.kind # "none"
              THEN /\ result' = [result EXCEPT ![p] = r.stored]
                   /\ nWrites' = [nWrites EXCEPT ![p] = @ + 1]
              ELSE UNCHANGED <<result, nWrites>>
           /\ wpc' = [wpc EXCEPT ![w] = IF r.propagates THEN "terminate" ELSE "lock"]
    /\ cur' = [cur EXCEPT ![w] = 0]
    /\ UNCHANGED <<nworkers, stop, tasks, mutex, joined, callable, handle, owner,
                   consumed, nCreated, nShutdown, pc, ctask, idx, ret, enqOrder,
                   deqOrder, nReturned, dtor, destroyed>>

WorkerStep(w) ==
    \/ WLock(w)
    \/ WWait(w)
    \/ WRelock(w)
    \/ WExit(w)
    \/ WDequeue(w)
    \/ WRun(w)

\* ----------------------------------------------------------------- submit

\* auto task = std::make_shared<std::packaged_task<...>>(std::bind(f, args...));
\* std::future<return_type> result = task->get_future();
SubmitCreate(c, f) ==
    /\ pc[c] = "idle"
    /\ dtor = 0
    /\ nCreated < MaxTasks
    /\ LET p == nCreated + 1
       IN  /\ nCreated' = p
           /\ callable' = [callable EXCEPT ![p] = f]
           /\ handle' = [handle EXCEPT ![p] = get_future(p)]
           /\ ctask' = [ctask EXCEPT ![c] = p]
    /\ pc' = [pc EXCEPT ![c] = "s_lock"]
    /\ ret' = [ret EXCEPT ![c] = NoRet]
    /\ UNCHANGED <<nworkers, stop, tasks, mutex, wpc, cur, joined, result, owner,
                   consumed, nShutdown, idx, enqOrder, deqOrder, bodyDone, nWrites,
                   nReturned, dtor, destroyed>>

\* std::unique_lock<std::mutex> lock(queue_mutex);
SubmitLock(c) ==
    /\ pc[c] = "s_lock"
    /\ mutex = Free
    /\ mutex' = C(c)
    /\ pc' = [pc EXCEPT ![c] = "s_check"]
    /\ UNCHANGED <<nworkers, stop, tasks, wpc, cur, joined, callable, handle,
                   result, owner, consumed, nCreated, nShutdown, ctask, idx, ret,
                   enqOrder, deqOrder, bodyDone, nWrites,
                   nReturned, dtor, destroyed>>

\* A faulty submit(): the task is emplaced before stop is tested.
SubmitThrow_late(c) ==
    /\ pc[c] = "s_check"
    /\ mutex = C(c)
    /\ submit_closed
    /\ tasks' = Emplace(tasks, ctask[c])
    /\ enqOrder' = Append(enqOrder, ctask[c])
    /\ mutex' = Free
    /\ pc' = [pc EXCEPT ![c] = "idle"]
    /\ ret' = [ret EXCEPT ![c] = Ret("PoolClosed", 0, "")]
    /\ ctask' = [ctask EXCEPT ![c] = 0]
    /\ UNCHANGED <<nworkers, stop, wpc, cur, joined, callable, handle,
                   result, owner, consumed, nCreated, nShutdown, idx,
                   deqOrder, bodyDone, nWrites, nReturned, dtor, destroyed>>

\* if (stop) throw std::runtime_error("Cannot submit task to stopped ThreadPool");
\* the unwinding releases the mutex and destroys the packaged_task and its future.
SubmitThrow(c) ==
    /\ pc[c] = "s_check"
    /\ mutex = C(c)
    /\ submit_closed
    /\ mutex' = Free
    /\ pc' = [pc EXCEPT ![c] = "idle"]
    /\ ret' = [ret EXCEPT ![c] = Ret("PoolClosed", 0, "")]
    /\ ctask' = [ctask EXCEPT ![c] = 0]
    /\ UNCHANGED <<nworkers, stop, tasks, wpc, cur, joined, callable, handle,
                   result, owner, consumed, nCreated, nShutdown, idx, enqOrder,
                   deqOrder, bodyDone, nWrites,
                   nReturned, dtor, destroyed>>

\* tasks.emplace(std::bind(&execute_packaged_task<return_type>, task)); and the
\* block's end releases the mutex.
SubmitEmplace(c) ==
    /\ pc[c] = "s_check"
    /\ mutex = C(c)
    /\ ~submit_closed
    /\ tasks' = Emplace(tasks, ctask[c])
    /\ enqOrder' = Append(enqOrder, ctask[c])
    /\ mutex' = Free
    /\ pc' = [pc EXCEPT ![c] = "s_notify"]
    /\ UNCHANGED <<nworkers, stop, wpc, cur, joined, callable, handle, result,
                   owner, consumed, nCreated, nShutdown, ctask, idx, ret,
                   deqOrder, bodyDone, nWrites,
                   nReturned, dtor, destroyed>>

\* A faulty submit(): it returns only once its task's result is written.
SubmitNotify_waits(c) ==
    /\ pc[c] = "s_notify"
    /\ result[ctask[c]].kind # "none"
    /\ NotifyOne(wpc')
    /\ owner' = [owner EXCEPT ![ctask[c]] = c]
    /\ ret' = [ret EXCEPT ![c] = Ret("handle", ctask[c], "")]
    /\ ctask' = [ctask EXCEPT ![c] = 0]
    /\ pc' = [pc EXCEPT ![c] = "idle"]
    /\ UNCHANGED <<nworkers, stop, tasks, mutex, cur, joined, callable, handle,
                   result, consumed, nCreated, nShutdown, idx, enqOrder, deqOrder,
                   bodyDone, nWrites, nReturned, dtor, destroyed>>

\* condition.notify_one(); return result;
SubmitNotify(c) ==
    /\ pc[c] = "s_notify"
    /\ NotifyOne(wpc')
    /\ owner' = [owner EXCEPT ![ctask[c]] = c]
    /\ ret' = [ret EXCEPT ![c] = Ret("handle", ctask[c], "")]
    /\ ctask' = [ctask EXCEPT ![c] = 0]
    /\ pc' = [pc EXCEPT ![c] = "idle"]
    /\ UNCHANGED <<nworkers, stop, tasks, mutex, cur, joined, callable, handle,
                   result, consumed, nCreated, nShutdown, idx, enqOrder, deqOrder,
                   bodyDone, nWrites,
                   nReturned, dtor, destroyed>>

\* --------------------------------------------------------- get_queue_size

\* std::unique_lock<std::mutex> lock(queue_mutex);
SizeLock(c) ==
    /\ pc[c] = "idle"
    /\ dtor = 0
    /\ mutex = Free
    /\ mutex' = C(c)
    /\ pc' = [pc EXCEPT ![c] = "q_size"]
    /\ ret' = [ret EXCEPT ![c] = NoRet]
    /\ UNCHANGED <<nworkers, stop, tasks, wpc, cur, joined, callable, handle,
                   result, owner, consumed, nCreated, nShutdown, ctask, idx,
                   enqOrder, deqOrder, bodyDone, nWrites,
                   nReturned, dtor, destroyed>>

\* A faulty get_queue_size(): it counts every task ever enqueued.
SizeReturn_stale(c) ==
    /\ pc[c] = "q_size"
    /\ mutex = C(c)
    /\ mutex' = Free
    /\ ret' = [ret EXCEPT ![c] = Ret("size", Len(enqOrder), "")]
    /\ pc' = [pc EXCEPT ![c] = "idle"]
    /\ UNCHANGED <<nworkers, stop, tasks, wpc, cur, joined, callable, handle,
                   result, owner, consumed, nCreated, nShutdown, ctask, idx,
                   enqOrder, deqOrder, bodyDone, nWrites,
                   nReturned, dtor, destroyed>>

\* return tasks.size();
SizeReturn(c) ==
    /\ pc[c] = "q_size"
    /\ mutex = C(c)
    /\ mutex' = Free
    /\ ret' = [ret EXCEPT ![c] = Ret("size", Len(tasks), "")]
    /\ pc' = [pc EXCEPT ![c] = "idle"]
    /\ UNCHANGED <<nworkers, stop, tasks, wpc, cur, joined, callable, handle,
                   result, owner, consumed, nCreated, nShutdown, ctask, idx,
                   enqOrder, deqOrder, bodyDone, nWrites,
                   nReturned, dtor, destroyed>>

\* --------------------------------------------------------------- shutdown

\* A faulty shutdown(): it enters its block without taking queue_mutex.
ShutdownLock_nolock(c) ==
    /\ pc[c] = "idle"
    /\ dtor = 0
    /\ nShutdown < MaxShutdowns
    /\ nShutdown' = nShutdown + 1
    /\ pc' = [pc EXCEPT ![c] = "sd_stop"]
    /\ ret' = [ret EXCEPT ![c] = NoRet]
    /\ UNCHANGED <<nworkers, stop, tasks, mutex, wpc, cur, joined, callable,
                   handle, result, owner, consumed, nCreated, ctask, idx,
                   enqOrder, deqOrder, bodyDone, nWrites, nReturned,
                   dtor, destroyed>>

\* std::unique_lock<std::mutex> lock(queue_mutex);
ShutdownLock(c) ==
    /\ pc[c] = "idle"
    /\ dtor = 0
    /\ nShutdown < MaxShutdowns
    /\ mutex = Free
    /\ mutex' = C(c)
    /\ nShutdown' = nShutdown + 1
    /\ pc' = [pc EXCEPT ![c] = "sd_stop"]
    /\ ret' = [ret EXCEPT ![c] = NoRet]
    /\ UNCHANGED <<nworkers, stop, tasks, wpc, cur, joined, callable, handle,
                   result, owner, consumed, nCreated, ctask, idx, enqOrder,
                   deqOrder, bodyDone, nWrites,
                   nReturned, dtor, destroyed>>

\* stop = true; and the block's end releases the mutex.
ShutdownStop(c) ==
    /\ pc[c] = "sd_stop"
    /\ mutex = C(c)
    /\ stop' = TRUE
    /\ mutex' = Free
    /\ pc' = [pc EXCEPT ![c] = "sd_notify"]
    /\ UNCHANGED <<nworkers, tasks, wpc, cur, joined, callable, handle, result,
                   owner, consumed, nCreated, nShutdown, ctask, idx, ret,
                   enqOrder, deqOrder, bodyDone, nWrites,
                   nReturned, dtor, destroyed>>

\* condition.notify_all(); then the loop over workers starts at the first.
ShutdownNotify(c) ==
    /\ pc[c] = "sd_notify"
    /\ wpc' = NotifyAll
    /\ idx' = [idx EXCEPT ![c] = 1]
    /\ pc' = [pc EXCEPT ![c] = "sd_loop"]
    /\ UNCHANGED <<nworkers, stop, tasks, mutex, cur, joined, callable, handle,
                   result, owner, consumed, nCreated, nShutdown, ctask, ret,
                   enqOrder, deqOrder, bodyDone, nWrites,
                   nReturned, dtor, destroyed>>

\* for (std::thread& worker : workers) if (worker.joinable()) ...: a worker
\* that is not joinable is skipped.
ShutdownSkip(c) ==
    /\ pc[c] = "sd_loop"
    /\ idx[c] <= nworkers
    /\ ~joinable(idx[c])
    /\ idx' = [idx EXCEPT ![c] = @ + 1]
    /\ UNCHANGED <<nworkers, stop, tasks, mutex, wpc, cur, joined, callable,
                   handle, result, owner, consumed, nCreated, nShutdown, pc,
                   ctask, ret, enqOrder, deqOrder, bodyDone, nWrites,
                   nReturned, dtor, destroyed>>

\* worker.joinable() was true: the caller goes on to worker.join().
ShutdownJoinable(c) ==
    /\ pc[c] = "sd_loop"
    /\ idx[c] <= nworkers
    /\ joinable(idx[c])
    /\ pc' = [pc EXCEPT ![c] = "sd_join"]
    /\ UNCHANGED <<nworkers, stop, tasks, mutex, wpc, cur, joined, callable,
                   handle, result, owner, consumed, nCreated, nShutdown, ctask,
                   idx, ret, enqOrder, deqOrder, bodyDone, nWrites,
                   nReturned, dtor, destroyed>>

\* A faulty join: the caller goes on without waiting for worker_loop to return.
ShutdownJoin_nowait(c) ==
    /\ pc[c] = "sd_join"
    /\ ~joined[idx[c]]
    /\ joined' = [joined EXCEPT ![idx[c]] = TRUE]
    /\ idx' = [idx EXCEPT ![c] = @ + 1]
    /\ pc' = [pc EXCEPT ![c] = "sd_loop"]
    /\ UNCHANGED <<nworkers, stop, tasks, mutex, wpc, cur, callable, handle,
                   result, owner, consumed, nCreated, nShutdown, ctask, ret,
                   enqOrder, deqOrder, bodyDone, nWrites, nReturned,
                   dtor, destroyed>>

\* worker.join() returns once worker_loop has returned; the thread is then
\* no longer joinable.
ShutdownJoin(c) ==
    /\ pc[c] = "sd_join"
    /\ ~joined[idx[c]]
    /\ wpc[idx[c]] = "done"
    /\ joined' = [joined EXCEPT ![idx[c]] = TRUE]
    /\ idx' = [idx EXCEPT ![c] = @ + 1]
    /\ pc' = [pc EXCEPT ![c] = "sd_loop"]
    /\ UNCHANGED <<nworkers, stop, tasks, mutex, wpc, cur, callable, handle,
                   result, owner, consumed, nCreated, nShutdown, ctask, ret,
                   enqOrder, deqOrder, bodyDone, nWrites,
                   nReturned, dtor, destroyed>>

\* worker.join() on a thread another shutdown() caller has joined since the
\* joinable() test: join() throws std::system_error out of shutdown().
ShutdownJoinRace(c) ==
    /\ pc[c] = "sd_join"
    /\ joined[idx[c]]
    /\ idx' = [idx EXCEPT ![c] = 0]
    /\ pc' = [pc EXCEPT ![c] = "idle"]
    /\ ret' = [ret EXCEPT ![c] = Ret("system_error", 0, "")]
    /\ UNCHANGED <<nworkers, stop, tasks, mutex, wpc, cur, joined, callable,
                   handle, result, owner, consumed, nCreated, nShutdown, ctask,
                   enqOrder, deqOrder, bodyDone, nWrites,
                   nReturned, dtor, destroyed>>

\* worker.join() while another shutdown() caller is in join() on the same
\* std::thread: two joins of one thread race, and the second join() to reach
\* the thread library fails (EINVAL), which join() throws as std::system_error.
ShutdownJoinBusy(c) ==
    /\ pc[c] = "sd_join"
    /\ ~joined[idx[c]]
    /\ \E d \in Clients : d # c /\ pc[d] = "sd_join" /\ idx[d] = idx[c]
    /\ idx' = [idx EXCEPT ![c] = 0]
    /\ pc' = [pc EXCEPT ![c] = "idle"]
    /\ ret' = [ret EXCEPT ![c] = Ret("system_error", 0, "")]
    /\ UNCHANGED <<nworkers, stop, tasks, mutex, wpc, cur, joined, callable,
                   handle, result, owner, consumed, nCreated, nShutdown, ctask,
                   enqOrder, deqOrder, bodyDone, nWrites, nReturned,
                   dtor, destroyed>>

\* A faulty shutdown(): it discards the tasks still queued before it returns.
ShutdownReturn_discard(c) ==
    /\ pc[c] = "sd_loop"
    /\ idx[c] > nworkers
    /\ tasks' = <<>>
    /\ idx' = [idx EXCEPT ![c] = 0]
    /\ pc' = [pc EXCEPT ![c] = "idle"]
    /\ ret' = [ret EXCEPT ![c] = Ret("shutdown", 0, "")]
    /\ nReturned' = nReturned + 1
    /\ destroyed' = (dtor = c)
    /\ UNCHANGED <<nworkers, stop, mutex, wpc, cur, joined, callable,
                   handle, result, owner, consumed, nCreated, nShutdown, ctask,
                   enqOrder, deqOrder, bodyDone, nWrites, dtor>>

\* The loop is over: shutdown() returns.
ShutdownReturn(c) ==
    /\ pc[c] = "sd_loop"
    /\ idx[c] > nworkers
    /\ idx' = [idx EXCEPT ![c] = 0]
    /\ pc' = [pc EXCEPT ![c] = "idle"]
    /\ ret' = [ret EXCEPT ![c] = Ret("shutdown", 0, "")]
    /\ nReturned' = nReturned + 1
    /\ destroyed' = (dtor = c)
    /\ UNCHANGED <<nworkers, stop, tasks, mutex, wpc, cur, joined, callable,
                   handle, result, owner, consumed, nCreated, nShutdown, ctask,
                   enqOrder, deqOrder, bodyDone, nWrites, dtor>>

\* ----------------------------------------------------------- ~ThreadPool

\* A faulty destructor: it does not call shutdown().
DtorCall_noshutdown(c) ==
    /\ pc[c] = "idle"
    /\ dtor = 0
    /\ \A d \in Clients \ {c} : pc[d] \in {"idle", "get"}
    /\ dtor' = c
    /\ destroyed' = TRUE
    /\ ret' = [ret EXCEPT ![c] = NoRet]
    /\ UNCHANGED <<nworkers, stop, tasks, mutex, wpc, cur, joined, callable,
                   handle, result, owner, consumed, nCreated, nShutdown, pc,
                   ctask, idx, enqOrder, deqOrder, bodyDone, nWrites,
                   nReturned>>

\* ~ThreadPool() { shutdown(); }: the pool is destroyed by one client, while no
\* other thread is inside a call on it, and is not used afterwards. The step
\* is the destructor's entry into shutdown() up to its lock on queue_mutex;
\* the steps of shutdown() follow.
DtorCall(c) ==
    /\ pc[c] = "idle"
    /\ dtor = 0
    /\ \A d \in Clients \ {c} : pc[d] \in {"idle", "get"}
    /\ mutex = Free
    /\ mutex' = C(c)
    /\ dtor' = c
    /\ pc' = [pc EXCEPT ![c] = "sd_stop"]
    /\ ret' = [ret EXCEPT ![c] = NoRet]
    /\ UNCHANGED <<nworkers, stop, tasks, wpc, cur, joined, callable, handle,
                   result, owner, consumed, nCreated, nShutdown, ctask, idx,
                   enqOrder, deqOrder, bodyDone, nWrites, nReturned,
                   destroyed>>

\* ----------------------------------------------------------- future::get

\* futures[i].get() is called on a future the client holds and has not read.
GetCall(c, p) ==
    /\ pc[c] = "idle"
    /\ owner[p] = c
    /\ ~consumed[p]
    /\ ctask' = [ctask EXCEPT ![c] = p]
    /\ pc' = [pc EXCEPT ![c] = "get"]
    /\ ret' = [ret EXCEPT ![c] = NoRet]
    /\ UNCHANGED <<nworkers, stop, tasks, mutex, wpc, cur, joined, callable,
                   handle, result, owner, consumed, nCreated, nShutdown, idx,
                   enqOrder, deqOrder, bodyDone, nWrites,
                   nReturned, dtor, destroyed>>

\* get() blocks until the shared state is ready, then returns the value or
\* rethrows the stored exception, and leaves the future invalid.
GetReturn(c) ==
    /\ pc[c] = "get"
    /\ result[handle[ctask[c]]].kind # "none"
    /\ ret' = [ret EXCEPT ![c] = Ret(result[handle[ctask[c]]].kind, ctask[c],
                                      result[handle[ctask[c]]].val)]
    /\ consumed' = [consumed EXCEPT ![ctask[c]] = TRUE]
    /\ ctask' = [ctask EXCEPT ![c] = 0]
    /\ pc' = [pc EXCEPT ![c] = "idle"]
    /\ UNCHANGED <<nworkers, stop, tasks, mutex, wpc, cur, joined, callable,
                   handle, result, owner, nCreated, nShutdown, idx, enqOrder,
                   deqOrder, bodyDone, nWrites,
                   nReturned, dtor, destroyed>>

\* futures[i].get() is called again on a future whose get() has returned.
\* The future is invalid (valid() is false) and get() has no defined result.
\* What the documented compilers make of it: with g++ (libstdc++) get() throws
\* std::future_error(no_state); with clang++ (libc++) get() dereferences the
\* null pointer to the shared state and the caller is left at "undefined"
\* (the process is killed: every other thread stops where it is, which adds
\* no state of the pool).
GetAgain(c, p) ==
    /\ pc[c] = "idle"
    /\ owner[p] = c
    /\ consumed[p]
    /\ \/ /\ ret' = [ret EXCEPT ![c] = Ret("future_error", p, "")]
          /\ pc' = pc
       \/ /\ ret' = [ret EXCEPT ![c] = NoRet]
          /\ pc' = [pc EXCEPT ![c] = "undefined"]
    /\ UNCHANGED <<nworkers, stop, tasks, mutex, wpc, cur, joined, callable,
                   handle, result, owner, consumed, nCreated, nShutdown, ctask,
                   idx, enqOrder, deqOrder, bodyDone, nWrites, nReturned,
                   dtor, destroyed>>

\* ------------------------------------------------------------------- Next

\* The steps of a client's call to the pool that is under way.
ClientStep(c) ==
    \/ SubmitLock(c)
    \/ SubmitThrow(c)
    \/ SubmitEmplace(c)
    \/ SubmitNotify(c)
    \/ SizeReturn(c)
    \/ ShutdownStop(c)
    \/ ShutdownNotify(c)
    \/ ShutdownSkip(c)
    \/ ShutdownJoinable(c)
    \/ ShutdownJoin(c)
    \/ ShutdownJoinRace(c)
    \/ ShutdownJoinBusy(c)
    \/ ShutdownReturn(c)

\* The calls to the pool a client may begin.
ClientCall(c) ==
    \/ \E f \in Callables : SubmitCreate(c, f)
    \/ SizeLock(c)
    \/ ShutdownLock(c)

\* The steps of the pool: its workers and the calls of its public functions.
PoolNext ==
    \/ \E w \in 1..MaxWorkers : WorkerStep(w)
    \/ \E w \in 1..MaxWorkers : WSpurious(w)
    \/ \E c \in Clients : ClientStep(c)
    \/ \E c \in Clients : ClientCall(c)

\* The clients' reads of the futures they hold.
FutureNext ==
    \/ \E c \in Clients : \E p \in TaskIds : GetCall(c, p)
    \/ \E c \in Clients : GetReturn(c)
    \/ \E c \in Clients : \E p \in TaskIds : GetAgain(c, p)

\* The destruction of the pool object.
DtorNext == \E c \in Clients : DtorCall(c)

Next == PoolNext \/ FutureNext \/ DtorNext

Spec == Init /\ [][Next]_vars

\* The steps a worker takes without waiting for the mutex.
WorkerRun(w) == WWait(w) \/ WExit(w) \/ WDequeue(w) \/ WRun(w)

\* The steps of a client's call that do not wait for the mutex.
ClientRun(c) ==
    \/ SubmitThrow(c)
    \/ SubmitEmplace(c)
    \/ SubmitNotify(c)
    \/ SizeReturn(c)
    \/ ShutdownStop(c)
    \/ ShutdownNotify(c)
    \/ ShutdownSkip(c)
    \/ ShutdownJoinable(c)
    \/ ShutdownJoin(c)
    \/ ShutdownJoinRace(c)
    \/ ShutdownJoinBusy(c)
    \/ ShutdownReturn(c)

\* Fair scheduling: a thread that can take a step does so (every task body
\* ends, every call under way goes on), and a thread that waits for the mutex
\* gets it if it is free again and again. Nothing obliges a client to begin
\* a call, and no wait() has to wake up spuriously.
Fairness ==
    /\ \A w \in 1..MaxWorkers :
          WF_vars(WorkerRun(w)) /\ SF_vars(WLock(w) \/ WRelock(w))
    /\ \A c \in Clients :
          WF_vars(ClientRun(c)) /\ SF_vars(SubmitLock(c))

\* The pool under fair scheduling. The clients' reads of their futures are
\* left out: GetCall and GetReturn change no variable that a step of the pool
\* reads, so every behaviour of the pool with them is one without them.
FairSpec == Init /\ [][PoolNext]_vars /\ Fairness

\* The steps a worker takes while it holds the mutex; each releases it.
WorkerLocked(w) == WWait(w) \/ WExit(w) \/ WDequeue(w)

\* Fair scheduling of everything but the task bodies: a body may run for
\* ever (no fairness on WRun), every other step is scheduled as in Fairness.
FairnessBusy ==
    /\ \A w \in 1..MaxWorkers :
          WF_vars(WorkerLocked(w)) /\ SF_vars(WLock(w) \/ WRelock(w))
    /\ \A c \in Clients :
          WF_vars(ClientRun(c)) /\ SF_vars(SubmitLock(c))

\* The pool under fair scheduling, with task bodies that need not end.
BusySpec == Init /\ [][PoolNext]_vars /\ FairnessBusy

\* ------------------------------------------------------------- properties

\* The tasks whose submit() succeeded: the ones emplaced in the queue.
Accepted == Range(enqOrder)
InQueue(p) == Cardinality({i \in 1..Len(tasks) : tasks[i] = p})
Running(p) == Cardinality({w \in Workers : wpc[w] = "run" /\ cur[w] = p})
Written(p) == result[p].kind # "none"
\* The shared state the future of task p refers to has been written.
FutureReady(p) == handle[p] # 0 /\ Written(handle[p])
AllWorkersDone == \A w \in Workers : wpc[w] = "done"
ShutdownReturned(c) == pc[c] = "idle" /\ ret[c].kind = "shutdown"

\* C1: in a pool with at least one worker, under fair scheduling, every task
\* whose submit() succeeded (the task was appended to the queue) eventually
\* has the shared state of its future written.
C1_AcceptedTasksComplete ==
    \A p \in TaskIds :
        (nworkers >= 1 /\ p \in Accepted) ~> FutureReady(p)

\* Two tasks were accepted and completed on a pool with workers, the last of
\* them after stop was set.
C1_Witness ==
    /\ nworkers >= 1
    /\ Len(enqOrder) >= 2
    /\ \A p \in Accepted : FutureReady(p)
    /\ stop

\* C2: every accepted task is in exactly one place: once in the queue, or held
\* by exactly one running worker, or completed (its body ran once); a task
\* that was not accepted is in none of them; the shared state of a task is
\* written at most once, and exactly when its body has completed.
C2_TaskConservation ==
    \A p \in TaskIds :
        /\ InQueue(p) + Running(p) + bodyDone[p] = (IF p \in Accepted THEN 1 ELSE 0)
        /\ Cardinality({i \in 1..Len(enqOrder) : enqOrder[i] = p}) <= 1
        /\ nWrites[p] <= 1
        /\ nWrites[p] = bodyDone[p]

\* One task waits in the queue while another is run and a third place, the
\* completed tasks, is still empty.
C2_Witness ==
    \E p, q \in TaskIds : p # q /\ InQueue(p) = 1 /\ Running(q) = 1

\* C3: the sequence of tasks the workers have removed from the queue is a
\* prefix of the sequence in which the submits appended them.
C3_FifoDequeue ==
    /\ Len(deqOrder) <= Len(enqOrder)
    /\ \A i \in 1..Len(deqOrder) : deqOrder[i] = enqOrder[i]

\* Two tasks were appended in the opposite order of their creation, by
\* concurrent submitters, and both have been removed, by two workers.
C3_Witness ==
    /\ nworkers >= 2
    /\ Len(enqOrder) >= 2 /\ enqOrder[1] > enqOrder[2]
    /\ Len(deqOrder) >= 2

\* C4: once stop is true it stays true, no task is appended to the queue,
\* and a submit that holds the lock leaves it only by throwing PoolClosed.
C4_StopIsFinal ==
    [][stop =>
        /\ stop'
        /\ enqOrder' = enqOrder
        /\ \A c \in Clients :
              (pc[c] = "s_check" /\ pc'[c] # "s_check")
                  => (pc'[c] = "idle" /\ ret'[c].kind = "PoolClosed")]_vars

\* A submit has failed with PoolClosed on a stopped pool.
C4_Witness ==
    \E c \in Clients : stop /\ pc[c] = "idle" /\ ret[c].kind = "PoolClosed"

\* C5: when a shutdown() call has returned, every worker has terminated.
C5_ShutdownReturnsAfterWorkers ==
    \A c \in Clients : ShutdownReturned(c) => AllWorkersDone

\* shutdown() has returned on a pool of two workers that ran a task.
C5_Witness ==
    \E c \in Clients : ShutdownReturned(c) /\ nworkers >= 2 /\ deqOrder # <<>>

\* C6: with at least one worker, when a shutdown() call has returned the
\* queue is empty and every accepted task has run to completion and has its
\* result written.
C6_GracefulDrain ==
    \A c \in Clients :
        (ShutdownReturned(c) /\ nworkers >= 1) =>
            /\ tasks = <<>>
            /\ \A p \in Accepted : bodyDone[p] = 1 /\ Written(p)

\* shutdown() has returned on a pool that had accepted two tasks and on
\* which a second shutdown() call was made.
C6_Witness ==
    \E c \in Clients :
        /\ ShutdownReturned(c) /\ nworkers >= 1
        /\ Len(enqOrder) >= 2
        /\ nShutdown >= 2

\* C7: once a shutdown() call has returned, stop is true and every worker is
\* terminated and joined; a shutdown() call made from then on changes neither
\* stop, the queue, any worker nor any thread's joined state, never reaches
\* join() and never throws, and each of its steps after taking the lock can
\* be taken at once (the loop finds every worker not joinable, then returns).
C7_ShutdownIdempotent ==
    [][nReturned >= 1 =>
        /\ stop /\ stop'
        /\ \A w \in Workers : wpc[w] = "done" /\ joined[w]
        /\ \A c \in Clients :
              (pc[c] \in {"idle", "sd_stop", "sd_notify", "sd_loop"}
                 /\ pc'[c] \in {"sd_stop", "sd_notify", "sd_loop", "idle"}
                 /\ <<pc[c], idx[c]>> # <<pc'[c], idx'[c]>>
                 /\ (pc[c] = "idle" => pc'[c] = "sd_stop"))
              => /\ tasks' = tasks /\ wpc' = wpc /\ joined' = joined
                 /\ result' = result /\ enqOrder' = enqOrder
                 /\ ret'[c].kind # "system_error"
        /\ \A c \in Clients :
              /\ (pc[c] = "sd_loop" /\ idx[c] <= nworkers) => ~joinable(idx[c])
              /\ pc'[c] = "sd_join" => pc[c] = "sd_join"]_vars

\* A second shutdown() call has returned on a pool that had workers.
C7_Witness ==
    nReturned >= 2 /\ nworkers >= 1

\* C8: a worker that runs a task whose body throws goes back to the top of
\* its loop with the failure stored in that task's own shared state, and the
\* step changes neither the queue, stop, another worker nor another task's
\* result; no worker is ever terminated by an exception; and a task whose
\* body returns has its own value as result.
C8_FailureIsContained ==
    [][/\ \A w \in Workers :
            (wpc[w] = "run" /\ wpc'[w] # "run" /\ callable[cur[w]] \in Failing)
            => /\ wpc'[w] = "lock"
               /\ result'[cur[w]] = [kind |-> "failure", val |-> callable[cur[w]]]
               /\ \A q \in TaskIds \ {cur[w]} : result'[q] = result[q]
               /\ \A v \in Workers \ {w} : wpc'[v] = wpc[v] /\ cur'[v] = cur[v]
               /\ tasks' = tasks /\ stop' = stop /\ mutex' = mutex
       /\ \A w \in Workers : wpc'[w] \notin {"terminate", "undefined"}
       /\ \A p \in TaskIds :
            (bodyDone'[p] >= 1 /\ callable'[p] \notin Failing)
            => result'[p] = [kind |-> "value", val |-> callable'[p]]]_vars

\* The only worker of a pool ran a failing task, which has its failure as
\* result, and after it a task submitted later, which has its value.
C8_Witness ==
    /\ nworkers = 1
    /\ Len(enqOrder) >= 2
    /\ callable[enqOrder[1]] \in Failing
    /\ result[enqOrder[1]].kind = "failure"
    /\ result[enqOrder[2]].kind = "value"

\* C9: the futures of distinct tasks refer to distinct shared states, each
\* the one of its own packaged_task; the state of a task whose body has run
\* holds the outcome of the callable given to that submit; and a get() on the
\* future of task p returns exactly that outcome, once.
C9_HandleIsOneToOne ==
    /\ \A p, q \in 1..nCreated : p # q => handle[p] # handle[q]
    /\ \A p \in 1..nCreated :
          /\ bodyDone[p] >= 1 => result[handle[p]] = Outcome(callable[p])
          /\ Written(handle[p]) => result[handle[p]] = Outcome(callable[p])
          /\ consumed[p] => owner[p] # 0 /\ Written(handle[p])
    /\ \A c \in Clients :
          ret[c].kind \in {"value", "failure"}
          => /\ [kind |-> ret[c].kind, val |-> ret[c].val] = Outcome(callable[ret[c].n])
             /\ owner[ret[c].n] = c /\ consumed[ret[c].n]

\* Two clients have read two futures: one got its task's failure, the other
\* its task's value.
C9_Witness ==
    \E c, d \in Clients :
        /\ ret[c].kind = "failure" /\ ret[d].kind = "value"
        /\ ret[c].n # ret[d].n

\* C10: a get() on the future of task p that has returned was preceded by the
\* end of p's body, and a client in get() on that future stays there in every
\* step taken while p's body has not ended.
C10_ReadAfterWrite ==
    [][/\ \A p \in TaskIds : consumed'[p] => bodyDone'[p] >= 1
       /\ \A c \in Clients :
            /\ ret'[c].kind \in {"value", "failure"} => bodyDone'[ret'[c].n] >= 1
            /\ (pc[c] = "get" /\ bodyDone'[ctask[c]] = 0) => pc'[c] = "get"]_vars

\* A client is blocked in get() on the future of a task that is being run.
C10_Witness ==
    \E c \in Clients :
        /\ pc[c] = "get" /\ ~Written(handle[ctask[c]])
        /\ Running(ctask[c]) = 1

\* A client is inside a submit() call.
InSubmit(c) == pc[c] \in {"s_lock", "s_check", "s_notify"}

\* C11: under fair scheduling of the mutex, with task bodies that may never
\* end, every submit() call that has started returns to its caller, with a
\* future or with PoolClosed.
C11_SubmitReturns ==
    \A c \in Clients :
        InSubmit(c) ~> (pc[c] = "idle" /\ ret[c].kind \in {"handle", "PoolClosed"})

\* A submit() has returned a future while every worker is inside a task body
\* and a task is still queued behind them.
C11_Witness ==
    \E c \in Clients :
        /\ pc[c] = "idle" /\ ret[c].kind = "handle"
        /\ nworkers >= 1
        /\ \A w \in Workers : wpc[w] = "run"
        /\ tasks # <<>>
        /\ ~Written(ret[c].n)

\* The packaged_tasks whose submit() ended with PoolClosed.
Rejected ==
    {p \in 1..nCreated : p \notin Accepted /\ \A c \in Clients : ctask[c] # p}

\* C12: the step in which a submit() throws PoolClosed changes neither the
\* queue, stop, any worker, any result nor any future's owner, and wakes no
\* worker; a task rejected that way is never queued, never run, never
\* written, and no client holds a future for it.
C12_FailedSubmitIsNoOp ==
    [][/\ \A c \in Clients :
            (pc[c] = "s_check" /\ ret'[c].kind = "PoolClosed")
            => /\ tasks' = tasks /\ enqOrder' = enqOrder /\ deqOrder' = deqOrder
               /\ stop' = stop /\ wpc' = wpc /\ cur' = cur /\ joined' = joined
               /\ result' = result /\ owner' = owner /\ bodyDone' = bodyDone
               /\ nWrites' = nWrites
       /\ \A p \in Rejected' :
            /\ InQueue(p)' = 0 /\ Running(p)' = 0 /\ bodyDone'[p] = 0
            /\ result'[p] = NoResult /\ nWrites'[p] = 0
            /\ owner'[p] = 0 /\ ~consumed'[p]]_vars

\* A submit() has thrown PoolClosed while a worker was still asleep in wait()
\* and a task accepted earlier had not completed.
C12_Witness ==
    \E c \in Clients :
        /\ pc[c] = "idle" /\ ret[c].kind = "PoolClosed"
        /\ \E w \in Workers : wpc[w] = "wait"
        /\ \E p \in Accepted : ~Written(p)
        /\ Rejected # {}

\* C13: get_queue_size() returns the length the queue has while the caller
\* holds the mutex, that length is (tasks enqueued) - (tasks dequeued), and
\* neither step of the call changes the queue, stop or any worker.
C13_QueueSizeIsExact ==
    [][\A c \in Clients :
          /\ (pc[c] = "q_size" /\ pc'[c] = "idle")
             => /\ mutex = C(c)
                /\ ret'[c].kind = "size"
                /\ ret'[c].n = Len(tasks)
                /\ ret'[c].n = Len(enqOrder) - Len(deqOrder)
          /\ (pc'[c] # pc[c] /\ (pc[c] = "q_size" \/ pc'[c] = "q_size"))
             => /\ tasks' = tasks /\ stop' = stop /\ wpc' = wpc /\ cur' = cur
                /\ enqOrder' = enqOrder /\ deqOrder' = deqOrder
                /\ joined' = joined /\ result' = result]_vars

\* get_queue_size() has returned 1 after two tasks were enqueued and one of
\* them dequeued.
C13_Witness ==
    \E c \in Clients :
        /\ pc[c] = "idle" /\ ret[c].kind = "size" /\ ret[c].n = 1
        /\ Len(enqOrder) = 2 /\ Len(deqOrder) = 1

\* C14: while no task has been dequeued the pending count equals the number
\* of tasks enqueued; a step that enqueues nothing never increases it; every
\* dequeue lowers it by exactly 1; and in a pool with at least one worker a
\* non-empty queue eventually becomes empty.
C14_PendingCount ==
    /\ [](deqOrder = <<>> => Len(tasks) = Len(enqOrder))
    /\ [][/\ enqOrder' = enqOrder => Len(tasks') <= Len(tasks)
          /\ deqOrder' # deqOrder
             => /\ Len(deqOrder') = Len(deqOrder) + 1
                /\ Len(tasks') = Len(tasks) - 1]_vars
    /\ (nworkers >= 1 /\ tasks # <<>>) ~> (tasks = <<>>)

\* Two tasks are pending in a pool that has a worker, and none has been
\* dequeued yet.
C14_Witness ==
    /\ nworkers >= 1
    /\ Len(tasks) = MaxTasks
    /\ deqOrder = <<>>
    /\ \A c \in Clients : pc[c] = "idle"

\* C15: in a pool with exactly one worker, a task enqueued after another one
\* is dequeued (its body starts) only after the earlier task has been
\* dequeued and its body has completed.
C15_SingleWorkerSerial ==
    nworkers = 1 =>
        \A i, j \in 1..Len(enqOrder) :
            (i < j /\ enqOrder[j] \in Range(deqOrder))
            => /\ enqOrder[i] \in Range(deqOrder)
               /\ bodyDone[enqOrder[i]] >= 1
               /\ Running(enqOrder[i]) = 0

\* The only worker runs the second task enqueued; the first one is complete.
C15_Witness ==
    /\ nworkers = 1
    /\ Len(enqOrder) = 2
    /\ wpc[1] = "run" /\ cur[1] = enqOrder[2]
    /\ bodyDone[enqOrder[1]] = 1

\* The threads positioned at code that reads or writes tasks or stop: a
\* worker between its lock and the end of its block (the wake-up predicate,
\* the exit test, front and pop), a client inside the block of submit,
\* get_queue_size or shutdown.
InCritical ==
    {W(w) : w \in {v \in Workers : wpc[v] = "check"}}
    \cup {C(c) : c \in {d \in Clients : pc[d] \in {"s_check", "q_size", "sd_stop"}}}

\* C18: at most one thread is inside code that accesses tasks or stop, that
\* thread is the holder of the mutex, the mutex is free when there is none,
\* and a step that changes tasks or stop is taken by the holder.
C18_LockDiscipline ==
    /\ [](/\ Cardinality(InCritical) <= 1
          /\ InCritical \subseteq {mutex}
          /\ (InCritical = {}) <=> (mutex = Free))
    /\ [][(tasks' # tasks \/ stop' # stop)
          => /\ mutex \in InCritical
             /\ \A w \in Workers : mutex = W(w) => wpc'[w] # wpc[w]
             /\ \A c \in Clients : mutex = C(c) => pc'[c] # pc[c]
             /\ \A w \in Workers : mutex # W(w) => wpc'[w] = wpc[w]
             /\ \A c \in Clients : mutex # C(c) => pc'[c] = pc[c]]_vars

\* A worker holds the mutex on a non-empty queue while another worker and a
\* submitting client are waiting to acquire it.
C18_Witness ==
    \E w, v \in Workers : \E c \in Clients :
        /\ mutex = W(w) /\ wpc[w] = "check"
        /\ wpc[v] = "relock"
        /\ pc[c] = "s_lock"
        /\ tasks # <<>>

\* C19: a worker that is executing a task body or is asleep in
\* condition.wait() is not the holder of the mutex.
C19_NoLockWhileRunningOrWaiting ==
    \A w \in Workers : wpc[w] \in {"run", "wait"} => mutex # W(w)

\* While one worker executes a task body and another is asleep in wait(), a
\* client holds the mutex inside get_queue_size().
C19_Witness ==
    \E w, v \in Workers : \E c \in Clients :
        /\ wpc[w] = "run"
        /\ wpc[v] = "wait"
        /\ mutex = C(c) /\ pc[c] = "q_size"

\* C20: no worker ever executes front()/pop() on an empty queue: a worker
\* leaves wait() only towards reacquiring the mutex, reacquiring leads back to
\* the test of the predicate with the mutex held, and the step that takes a
\* task is taken by the mutex holder on a non-empty queue.
C20_NoDequeueFromEmpty ==
    /\ [](\A w \in Workers : wpc[w] # "undefined")
    /\ [][\A w \in Workers :
            /\ (wpc[w] = "wait" /\ wpc'[w] # "wait") => wpc'[w] = "relock"
            /\ (wpc[w] = "relock" /\ wpc'[w] # "relock")
               => (wpc'[w] = "check" /\ mutex' = W(w) /\ tasks' = tasks)
            /\ (wpc'[w] # wpc[w] /\ wpc'[w] \in {"run", "undefined"})
               => /\ wpc[w] = "check" /\ mutex = W(w)
                  /\ tasks # <<>>
                  /\ wpc'[w] = "run"
                  /\ cur'[w] = Head(tasks)
                  /\ tasks' = Tail(tasks)]_vars

\* A worker has been woken and is about to reacquire the mutex, but the queue
\* is empty and stop is false: the task it was woken for was taken by another
\* worker, or the wake-up was spurious.
C20_Witness ==
    \E w \in Workers :
        /\ wpc[w] = "relock"
        /\ tasks = <<>>
        /\ ~stop
        /\ deqOrder # <<>>

\* C16: once ~ThreadPool() has completed, stop is true, every worker has left
\* worker_loop and has been joined, the mutex is free, and no worker takes a
\* step any more, whether or not shutdown() was called before.
C16_DestructorShutsDown ==
    /\ [](destroyed => /\ stop
                       /\ AllWorkersDone
                       /\ \A w \in Workers : joined[w]
                       /\ mutex = Free)
    /\ [][destroyed => (wpc' = wpc /\ cur' = cur /\ tasks' = tasks
                        /\ stop' = stop /\ mutex' = mutex)]_vars

\* The pool has been destroyed without any explicit shutdown() call, after
\* its workers had executed tasks.
C16_Witness ==
    /\ destroyed
    /\ nShutdown = 0
    /\ nworkers = MaxWorkers
    /\ Len(deqOrder) = MaxTasks

\* C17: every read of a future whose outcome an earlier read has consumed
\* ends with an error thrown to the caller (std::future_error stands for
\* HandleAlreadyConsumed), the caller being able to go on.
C17_SecondReadRaises ==
    [][\A c \in Clients : \A p \in TaskIds :
          GetAgain(c, p) => (ret'[c].kind = "future_error" /\ pc'[c] = "idle")]_vars

\* C21: a worker leaves worker_loop only by the step taken at its exit test,
\* holding the mutex, with stop true and the queue empty; it never ends in
\* any other way (an exception out of task(), a dequeue without defined
\* result); a worker that has returned takes no further step; and whenever
\* some worker has returned, stop is true and the queue is empty.
C21_WorkerExitsOnlyAtEndOfWork ==
    /\ []((\E w \in Workers : wpc[w] = "done") => (stop /\ tasks = <<>>))
    /\ [](\A w \in Workers : wpc[w] \notin {"terminate", "undefined"})
    /\ [][\A w \in Workers :
            /\ (wpc[w] # "done" /\ wpc'[w] = "done")
               => /\ wpc[w] = "check" /\ mutex = W(w)
                  /\ stop /\ tasks = <<>>
                  /\ cur[w] = 0
            /\ wpc[w] = "done" => (wpc'[w] = "done" /\ cur'[w] = cur[w])]_vars

\* One worker has returned from worker_loop while another is still running
\* the last task, dequeued after stop was set.
C21_Witness ==
    \E w, v \in Workers :
        /\ wpc[w] = "done"
        /\ wpc[v] = "run"
        /\ Len(deqOrder) = MaxTasks

\* The client is inside shutdown() after its notify_all().
AfterBroadcast(c) == pc[c] \in {"sd_loop", "sd_join"}

C23_OnlyDequeueIsOrdered ==
    \A i, j \in 1..Len(enqOrder) :
        (i < j /\ Written(enqOrder[j]) /\ ~Written(enqOrder[i]))
        => /\ nworkers >= 2
           /\ Running(enqOrder[i]) = 1
           /\ \E k, l \in 1..Len(deqOrder) :
                 k < l /\ deqOrder[k] = enqOrder[i] /\ deqOrder[l] = enqOrder[j]

\* Task B, enqueued after task A, was run by one worker while another was
\* running A, and B's shared state is written while A is still running.
C23_Witness ==
    /\ nworkers >= 2
    /\ Len(enqOrder) = 2
    /\ Written(enqOrder[2])
    /\ ~Written(enqOrder[1])
    /\ Running(enqOrder[1]) = 1

\* C24: no wake-up is lost. In a pool with at least one worker, whenever the
\* queue is non-empty and no submit() has its notify_one() still to come,
\* some worker is neither asleep in wait() nor returned: it has been woken
\* or never slept, and will test the predicate under the mutex.
C24_NoLostWakeup ==
    (/\ nworkers >= 1
     /\ tasks # <<>>
     /\ \A c \in Clients : pc[c] # "s_notify")
    => \E w \in Workers : wpc[w] \notin {"wait", "done"}

\* A task is queued and every notify_one() has been called; one worker is
\* still asleep in wait(), the other has been woken and is about to
\* reacquire the mutex.
C24_Witness ==
    /\ tasks # <<>>
    /\ ~stop
    /\ \A c \in Clients : pc[c] # "s_notify"
    /\ \E w, v \in Workers : wpc[w] = "wait" /\ wpc[v] = "relock"

\* The callers of shutdown() that have seen worker w joinable() and are at,
\* or inside, their call of join() on it.
Joiners(w) == {c \in Clients : pc[c] = "sd_join" /\ idx[c] = w}

\* C25: no two callers of shutdown() are past the joinable() test of the
\* same worker at the same time, so that each worker is joined by at most
\* one caller and no join() fails.
C25_SingleJoiner ==
    /\ \A w \in Workers : Cardinality(Joiners(w)) <= 1
    /\ \A c \in Clients : ret[c].kind # "system_error"

====
